---------------------------- MODULE Spec2Model ----------------------------
(***************************************************************************)
(* Model of the two browser controllers of html-qrcode-generator:          *)
(*   - QRScanner        (src/src/index.js)                                 *)
(*   - QRCodeGenerator  (the script listed in src/README.md, lines 155-)   *)
(*                                                                         *)
(* Text is a sequence of symbols.  The symbol " " is the whitespace        *)
(* character; every other symbol stands for one non-whitespace piece of    *)
(* text (one character in the generator, where lengths matter).            *)
(***************************************************************************)
EXTENDS Integers, Sequences, FiniteSets, Bags, TLC

(***************************************************************************)
(* Bounds of the model                                                     *)
(***************************************************************************)
\* images being read or loaded at the same time
MaxJobs == 2
\* "Copied!" feedback timers pending at the same time
MaxCopyTimers == 2
\* the maxLength handed to the QRCodeGenerator constructor
maxLength == 2
\* clipboard reads pending at the same time
MaxPastes == 1

(***************************************************************************)
(* Text helpers                                                            *)
(***************************************************************************)
IsSpace(c) == c = " "

RECURSIVE TrimStart(_)
TrimStart(s) ==
    IF s # <<>> /\ IsSpace(Head(s)) THEN TrimStart(Tail(s)) ELSE s

RECURSIVE TrimEnd(_)
TrimEnd(s) ==
    IF s # <<>> /\ IsSpace(s[Len(s)])
    THEN TrimEnd(SubSeq(s, 1, Len(s) - 1))
    ELSE s

\* String.prototype.trim
Trim(s) == TrimEnd(TrimStart(s))

(***************************************************************************)
(* QRScanner: inputs                                                       *)
(***************************************************************************)
\* MIME types, as sequences of pieces so that the match is computed
PngType   == <<"image", "/", "png">>
PlainType == <<"text", "/", "plain">>
DmgType   == <<"application", "/", "x-apple-disk", "image">>

\* file.type.match("image.*"): an unanchored match of the word "image"
MatchesImage(type) == \E i \in 1..Len(type) : type[i] = "image"

\* What the decoder makes of the pixels of a file: a code carrying `data',
\* no code, or an exception carrying `data' as its message.
\* readable: the FileReader delivers onload; loadable: the Image delivers
\* onload.
\* setup.dmg is a disk image (application/x-apple-diskimage), too large to
\* be read into a data URL.
Files ==
    { [name |-> "hi.png",    type |-> PngType,   readable |-> TRUE,
       loadable |-> TRUE,  decode |-> "code",  data |-> <<"hi">>],
      [name |-> "photo.png", type |-> PngType,   readable |-> TRUE,
       loadable |-> TRUE,  decode |-> "none",  data |-> <<>>],
      [name |-> "odd.png",   type |-> PngType,   readable |-> TRUE,
       loadable |-> TRUE,  decode |-> "throw", data |-> <<"boom">>],
      [name |-> "bad.png",   type |-> PngType,   readable |-> TRUE,
       loadable |-> FALSE, decode |-> "none",  data |-> <<>>],
      [name |-> "notes.txt", type |-> PlainType, readable |-> TRUE,
       loadable |-> FALSE, decode |-> "none",  data |-> <<>>],
      [name |-> "setup.dmg", type |-> DmgType,   readable |-> FALSE,
       loadable |-> FALSE, decode |-> "none",  data |-> <<>>] }

NoFile == [name |-> "", type |-> <<>>, readable |-> FALSE,
           loadable |-> FALSE, decode |-> "none", data |-> <<>>]

\* corner coordinates the decoder may report
Coords == {0, 20}
Points == [x : Coords, y : Coords]
\* code.location; only the two corners the scanner reads are kept
\* the two corners are opposite corners of the code, whichever way it is
\* turned in the picture
Locations ==
    { l \in [topLeftCorner : Points, bottomRightCorner : Points] :
        /\ l.topLeftCorner.x # l.bottomRightCorner.x
        /\ l.topLeftCorner.y # l.bottomRightCorner.y }

\* texts a user may leave in the result field
EditTexts == { <<>>, <<" ">>, <<" ", "x">> }

NoQRText  == <<"No", " ", "QR", " ", "code", " ", "found">>
ErrPrefix == <<"Error", " ", "scanning", " ", "QR", " ", "code:", " ">>
CopyLabel == "Copy"
Copied    == "Copied!"

\* fileInput.value once the picker holds a file
PickedPath == "C:\\fakepath\\file"

\* preview.src
NoSrc == [kind |-> "none", file |-> "", w |-> 0, h |-> 0]
FullSrc(f) == [kind |-> "full", file |-> f.name, w |-> 0, h |-> 0]
CropSrc(f, w, h) == [kind |-> "crop", file |-> f.name, w |-> w, h |-> h]

(***************************************************************************)
(* State                                                                   *)
(***************************************************************************)
VARIABLES
    resultText,      \* resultText.value
    previewSrc,      \* preview.src
    previewHidden,   \* previewArea.classList contains "hidden"
    fileInputValue,  \* fileInput.value
    copyDisabled,    \* copyBtn.disabled
    clearDisabled,   \* clearBtn.disabled
    copyBtnText,     \* copyBtn.textContent
    copyTimers,      \* pending setTimeout callbacks of copyToClipboard:
                     \* the originalText each one captured, oldest first
    jobs,            \* bag of the images in flight, each with the callback
                     \* it waits for
    latest,          \* the file accepted last (NoFile: none yet)
    lastOp           \* the handler that ran last and what it met

scannerVars == <<resultText, previewSrc, previewHidden, fileInputValue,
                 copyDisabled, clearDisabled, copyBtnText, copyTimers,
                 jobs, latest, lastOp>>

VARIABLES
    textInput,       \* textInput.value
    qrCodeContainer, \* children of qrCodeContainer
    errorText,       \* errorContainer.textContent
    msgAge,          \* seconds the displayed message has been displayed,
                     \* counted up to ErrorDelay
    errTimers,       \* pending setTimeout callbacks of showError: the
                     \* seconds each still has to wait (callbacks due at
                     \* the same time run back to back and are kept as one)
    pastes,          \* clipboard reads of pasteText not yet settled
    genOp            \* the generator handler that ran last and its input

generatorVars == <<textInput, qrCodeContainer, errorText, msgAge, errTimers,
                   pastes, genOp>>

VARIABLES
    fnIn,            \* the arguments of a function applied on its own
    fnOut            \* its result, once it has returned

fnVars == <<fnIn, fnOut>>

vars == <<scannerVars, generatorVars, fnVars>>

\* what the handlers of one controller leave alone
notScanner == <<generatorVars, fnVars>>
notGenerator == <<scannerVars, fnVars>>

Op(name, outcome) == [op |-> name, outcome |-> outcome]

(***************************************************************************)
(* QRScanner                                                               *)
(***************************************************************************)
\* The page the constructor binds to: empty result, hidden preview,
\* buttons disabled, button labelled "Copy".
PageMarkup ==
    /\ resultText = <<>>
    /\ previewSrc = NoSrc
    /\ previewHidden = TRUE
    /\ fileInputValue = ""
    /\ copyDisabled = TRUE
    /\ clearDisabled = TRUE
    /\ copyBtnText = CopyLabel

ScannerInit ==
    /\ PageMarkup
    /\ copyTimers = <<>>
    /\ jobs = EmptyBag
    /\ latest = NoFile
    /\ lastOp = Op("init", "-")

toggleButtons(text) ==
    LET hasText == Len(Trim(text)) > 0
    IN  /\ copyDisabled' = ~hasText
        /\ clearDisabled' = ~hasText

padding == 10

\* displayQRCodeArea: the crop rectangle handed to drawImage
qrWidth(location) ==
    location.bottomRightCorner.x - location.topLeftCorner.x + padding * 2

qrHeight(location) ==
    location.bottomRightCorner.y - location.topLeftCorner.y + padding * 2

displayQRCodeArea(location, f) ==
    /\ previewSrc' = CropSrc(f, qrWidth(location), qrHeight(location))
    /\ previewHidden' = FALSE

\* scanQRCode, its three branches
scanFound(f, location) ==
    /\ resultText' = f.data
    /\ displayQRCodeArea(location, f)
    /\ toggleButtons(f.data)

\* a no-result branch that forgets to hide the preview
scanNotFoundKeepsPreview(f) ==
    /\ resultText' = NoQRText
    /\ previewSrc' = FullSrc(f)
    /\ UNCHANGED <<previewHidden, copyDisabled, clearDisabled>>

\* preview.src keeps the data URL that tempImg.onload assigned before the call
scanNotFound(f) ==
    /\ resultText' = NoQRText
    /\ previewHidden' = TRUE
    /\ previewSrc' = FullSrc(f)
    /\ UNCHANGED <<copyDisabled, clearDisabled>>

\* a catch branch that forgets to hide the preview
scanThrewKeepsPreview(f) ==
    /\ resultText' = ErrPrefix \o f.data
    /\ previewSrc' = FullSrc(f)
    /\ UNCHANGED <<previewHidden, copyDisabled, clearDisabled>>

\* a catch branch that shows the bare message
scanThrewBareMessage(f) ==
    /\ resultText' = f.data
    /\ previewHidden' = TRUE
    /\ previewSrc' = FullSrc(f)
    /\ UNCHANGED <<copyDisabled, clearDisabled>>

scanThrew(f) ==
    /\ resultText' = ErrPrefix \o f.data
    /\ previewHidden' = TRUE
    /\ previewSrc' = FullSrc(f)
    /\ UNCHANGED <<copyDisabled, clearDisabled>>

scanQRCode(f) ==
    CASE f.decode = "code"  -> \E location \in Locations :
                                   scanFound(f, location)
      [] f.decode = "none"  -> scanNotFound(f)
      [] f.decode = "throw" -> scanThrew(f)

\* an image in flight: reader.onload or tempImg.onload is still to come
Job(f, stage) == [file |-> f, stage |-> stage]
Jobs == { Job(f, stage) : f \in Files, stage \in {"reading", "loading"} }

Finish(job) == jobs (-) SetToBag({job})

\* processFile up to reader.readAsDataURL
processFile(f) ==
    IF ~MatchesImage(f.type)
    THEN \* alert(...): a modal dialog; nothing on the page changes
         /\ lastOp' = Op("other", "-")
         /\ UNCHANGED <<resultText, previewSrc, previewHidden, copyDisabled,
                        clearDisabled, copyBtnText, copyTimers, jobs,
                        latest>>
    ELSE /\ BagCardinality(jobs) < MaxJobs
         /\ jobs' = jobs (+) SetToBag({Job(f, "reading")})
         /\ latest' = f
         /\ lastOp' = Op("other", "-")
         /\ UNCHANGED <<resultText, previewSrc, previewHidden, copyDisabled,
                        clearDisabled, copyBtnText, copyTimers>>

handleDrop(f) ==
    /\ processFile(f)
    /\ UNCHANGED fileInputValue
    /\ UNCHANGED notScanner

handleFileSelect(f) ==
    /\ fileInputValue' = PickedPath
    /\ processFile(f)
    /\ UNCHANGED notScanner

\* only image-typed clipboard items reach processFile
handlePaste(f) ==
    /\ MatchesImage(f.type)
    /\ processFile(f)
    /\ UNCHANGED fileInputValue
    /\ UNCHANGED notScanner

\* reader.onload: the temporary image starts loading
readerOnload(job) ==
    /\ BagIn(job, jobs)
    /\ job.stage = "reading"
    /\ job.file.readable
    /\ jobs' = Finish(job) (+) SetToBag({Job(job.file, "loading")})
    /\ lastOp' = Op("other", "-")
    /\ UNCHANGED <<resultText, previewSrc, previewHidden, fileInputValue,
                   copyDisabled, clearDisabled, copyBtnText, copyTimers,
                   latest>>
    /\ UNCHANGED notScanner

\* the read fails: no onerror handler is installed
readerError(job) ==
    /\ BagIn(job, jobs)
    /\ job.stage = "reading"
    /\ ~job.file.readable
    /\ jobs' = Finish(job)
    /\ lastOp' = Op("other", "-")
    /\ UNCHANGED <<resultText, previewSrc, previewHidden, fileInputValue,
                   copyDisabled, clearDisabled, copyBtnText, copyTimers,
                   latest>>
    /\ UNCHANGED notScanner

\* tempImg.onload: preview.src = e.target.result; scanQRCode(tempImg)
imgOnload(job) ==
    /\ BagIn(job, jobs)
    /\ job.stage = "loading"
    /\ job.file.loadable
    /\ scanQRCode(job.file)
    /\ jobs' = Finish(job)
    /\ lastOp' = Op("scan", job.file.decode)
    /\ UNCHANGED <<fileInputValue, copyBtnText, copyTimers, latest>>
    /\ UNCHANGED notScanner

\* the image does not load: no onerror handler is installed
imgError(job) ==
    /\ BagIn(job, jobs)
    /\ job.stage = "loading"
    /\ ~job.file.loadable
    /\ jobs' = Finish(job)
    /\ lastOp' = Op("other", "-")
    /\ UNCHANGED <<resultText, previewSrc, previewHidden, fileInputValue,
                   copyDisabled, clearDisabled, copyBtnText, copyTimers,
                   latest>>
    /\ UNCHANGED notScanner

\* click on the copy button (a disabled button delivers no click);
\* document.execCommand("copy") returns whether the text was written, and
\* the value it returns is dropped
copyToClipboard(written) ==
    /\ ~copyDisabled
    /\ Len(copyTimers) < MaxCopyTimers
    /\ copyTimers' = Append(copyTimers, copyBtnText)
    /\ copyBtnText' = Copied
    /\ lastOp' = Op("copy", IF written THEN "written" ELSE "failed")
    /\ UNCHANGED <<resultText, previewSrc, previewHidden, fileInputValue,
                   copyDisabled, clearDisabled, jobs, latest>>
    /\ UNCHANGED notScanner

\* the 2000 ms timers all have the same delay: they fire oldest first
copyTimeout ==
    /\ copyTimers # <<>>
    /\ copyBtnText' = Head(copyTimers)
    /\ copyTimers' = Tail(copyTimers)
    /\ lastOp' = Op("other", "-")
    /\ UNCHANGED <<resultText, previewSrc, previewHidden, fileInputValue,
                   copyDisabled, clearDisabled, jobs, latest>>
    /\ UNCHANGED notScanner

\* a clearResults that leaves the file picker as it is
clearResultsKeepsFile ==
    /\ ~clearDisabled
    /\ resultText' = <<>>
    /\ previewHidden' = TRUE
    /\ previewSrc' = NoSrc
    /\ toggleButtons(<<>>)
    /\ lastOp' = Op("clear", "-")
    /\ UNCHANGED <<fileInputValue, copyBtnText, copyTimers, jobs, latest>>
    /\ UNCHANGED notScanner

\* click on the clear button
clearResults ==
    /\ ~clearDisabled
    /\ resultText' = <<>>
    /\ previewHidden' = TRUE
    /\ previewSrc' = NoSrc
    /\ fileInputValue' = ""
    /\ toggleButtons(<<>>)
    /\ lastOp' = Op("clear", "-")
    /\ UNCHANGED <<copyBtnText, copyTimers, jobs, latest>>
    /\ UNCHANGED notScanner

\* the user edits the result field: "input" listener
resultInput(t) ==
    /\ resultText' = t
    /\ toggleButtons(t)
    /\ lastOp' = Op("other", "-")
    /\ UNCHANGED <<previewSrc, previewHidden, fileInputValue, copyBtnText,
                   copyTimers, jobs, latest>>
    /\ UNCHANGED notScanner

ScannerNext ==
    \/ \E f \in Files : handleDrop(f)
    \/ \E f \in Files : handleFileSelect(f)
    \/ \E f \in Files : handlePaste(f)
    \/ \E job \in Jobs : readerOnload(job)
    \/ \E job \in Jobs : readerError(job)
    \/ \E job \in Jobs : imgOnload(job)
    \/ \E job \in Jobs : imgError(job)
    \/ \E written \in BOOLEAN : copyToClipboard(written)
    \/ copyTimeout
    \/ clearResults
    \/ \E t \in EditTexts : resultInput(t)


(***************************************************************************)
(* QRCodeGenerator                                                         *)
(***************************************************************************)
\* characters of the generator's texts: a blank, and e-acute, a letter that
\* takes two bytes in UTF-8
Chars == {" ", "\"e"}

RECURSIVE TextsOfLen(_)
TextsOfLen(n) ==
    IF n = 0 THEN { <<>> }
    ELSE { Append(t, c) : t \in TextsOfLen(n - 1), c \in Chars }

TextsUpTo(n) == UNION { TextsOfLen(k) : k \in 0..n }

\* what a user can type: the maxlength attribute caps it
TypedTexts == TextsUpTo(maxLength)
\* what the clipboard may hold: also texts one character too long
ClipTexts == TextsUpTo(maxLength + 1)

\* errorContainer.textContent: the message and the number it quotes
NoMsg == [kind |-> "", n |-> 0]
EmptyMsg == [kind |-> "Please enter some text first!", n |-> 0]
TooLongMsg == [kind |-> "Text is too long! Maximum n characters allowed.",
               n |-> maxLength]
EncodeErrMsg ==
    [kind |-> "Error generating QR code. The text might be too long or contain unsupported characters.",
     n |-> 0]
TruncMsg ==
    [kind |-> "Pasted text is too long! Only first n characters will be used.",
     n |-> maxLength]
PasteErrMsg ==
    [kind |-> "Unable to paste from clipboard. Please check browser permissions.",
     n |-> 0]
WarnMsg(remaining) ==
    [kind |-> "Warning: n characters remaining. Very long text may not fit in QR code.",
     n |-> remaining]

\* the delay of showError's timer, in seconds
ErrorDelay == 5

GenOp(name, arg) == [op |-> name, arg |-> arg]

GeneratorInit ==
    /\ textInput = <<>>
    /\ qrCodeContainer = <<>>
    /\ errorText = NoMsg
    /\ msgAge = 0
    /\ errTimers = {}
    /\ pastes = 0
    /\ genOp = GenOp("init", <<>>)

\* TextEncoder.encode: the UTF-8 bytes of a text
Utf8(c) ==
    CASE c = " "   -> <<32>>
      [] c = "\"e" -> <<195, 169>>

RECURSIVE encode(_)
encode(text) ==
    IF text = <<>> THEN <<>> ELSE Utf8(Head(text)) \o encode(Tail(text))

\* the steps taken one byte late
getOptimalErrorCorrectionLate(length) ==
    IF length > 501 THEN "L"
    ELSE IF length > 201 THEN "M"
    ELSE IF length > 101 THEN "Q"
    ELSE "H"

\* getOptimalErrorCorrection reads only the length of its argument
getOptimalErrorCorrection(length) ==
    IF length > 500 THEN "L"
    ELSE IF length > 200 THEN "M"
    ELSE IF length > 100 THEN "Q"
    ELSE "H"

\* a validation that forgets to trim
validateUntrimmed(value, max) ==
    IF value = <<>> THEN "empty"
    ELSE IF Len(value) > max THEN "toolong"
    ELSE "ok"

\* the validation step of generateQRCode
validate(value, max) ==
    LET text == Trim(value)
    IN  IF text = <<>> THEN "empty"
        ELSE IF Len(text) > max THEN "toolong"
        ELSE "ok"

\* msgAge once message is written: a message that is already displayed
\* keeps its age, any other starts at 0
Shown(message) ==
    IF message = errorText /\ message # NoMsg THEN msgAge ELSE 0

\* showError: write the message and start a timer that empties the
\* container after ErrorDelay
showError(message) ==
    /\ errorText' = message
    /\ msgAge' = Shown(message)
    /\ errTimers' = errTimers \cup {ErrorDelay}

\* the message validateInputLength leaves for a text of the given length
\* (length > maxLength * 0.8, in whole numbers)
\* a test that also warns at 80% of the maximum
warningForFromLimit(length, max) ==
    IF 5 * length >= 4 * max
    THEN WarnMsg(max - length)
    ELSE NoMsg

\* the test text.length > maxLength * 0.8 and the message it chooses
warningFor(length, max) ==
    IF 5 * length > 4 * max
    THEN WarnMsg(max - length)
    ELSE NoMsg

lengthWarning(length) == warningFor(length, maxLength)

validateInputLength(text) ==
    /\ errorText' = lengthWarning(Len(text))
    /\ msgAge' = Shown(lengthWarning(Len(text)))

\* the children generateQRCode appends: the SVG made of the encoder's
\* matrix for these bytes at this level, and the info line
Rendered(text, level) ==
    << [tag |-> "svg", bytes |-> encode(text), level |-> level],
       [tag |-> "div", chars |-> Len(text), level |-> level] >>

\* a generateQRCode that empties the container before it validates
generateQRCodeClearsFirst(encoderThrows) ==
    LET text == Trim(textInput)
        verdict == validate(textInput, maxLength)
        level == getOptimalErrorCorrection(Len(encode(text)))
    IN  /\ UNCHANGED <<textInput, pastes>>
        /\ UNCHANGED notGenerator
        /\ CASE verdict = "empty" ->
                    /\ qrCodeContainer' = <<>>
                    /\ showError(EmptyMsg)
                    /\ genOp' = GenOp("rejected", textInput)
             [] verdict = "toolong" ->
                    /\ qrCodeContainer' = <<>>
                    /\ showError(TooLongMsg)
                    /\ genOp' = GenOp("rejected", textInput)
             [] verdict = "ok" /\ ~encoderThrows ->
                    /\ qrCodeContainer' = Rendered(text, level)
                    /\ errorText' = NoMsg
                    /\ msgAge' = 0
                    /\ genOp' = GenOp("encoded", text)
                    /\ UNCHANGED errTimers
             [] verdict = "ok" /\ encoderThrows ->
                    /\ qrCodeContainer' = <<>>
                    /\ showError(EncodeErrMsg)
                    /\ genOp' = GenOp("encoderThrew", text)

\* a generateQRCode that appends to what the container holds
generateQRCodeAppends(encoderThrows) ==
    LET text == Trim(textInput)
        verdict == validate(textInput, maxLength)
        level == getOptimalErrorCorrection(Len(encode(text)))
    IN  /\ UNCHANGED <<textInput, pastes>>
        /\ UNCHANGED notGenerator
        /\ CASE verdict = "empty" ->
                    /\ showError(EmptyMsg)
                    /\ genOp' = GenOp("rejected", textInput)
                    /\ UNCHANGED qrCodeContainer
             [] verdict = "toolong" ->
                    /\ showError(TooLongMsg)
                    /\ genOp' = GenOp("rejected", textInput)
                    /\ UNCHANGED qrCodeContainer
             [] verdict = "ok" /\ ~encoderThrows ->
                    /\ qrCodeContainer' = qrCodeContainer \o Rendered(text, level)
                    /\ errorText' = NoMsg
                    /\ msgAge' = 0
                    /\ genOp' = GenOp("encoded", text)
                    /\ UNCHANGED errTimers
             [] verdict = "ok" /\ encoderThrows ->
                    /\ showError(EncodeErrMsg)
                    /\ genOp' = GenOp("encoderThrew", text)
                    /\ UNCHANGED qrCodeContainer

\* a generateQRCode that empties the container only once the encoder has
\* delivered
generateQRCodeKeepsOnThrow(encoderThrows) ==
    LET text == Trim(textInput)
        verdict == validate(textInput, maxLength)
        level == getOptimalErrorCorrection(Len(encode(text)))
    IN  /\ UNCHANGED <<textInput, pastes>>
        /\ UNCHANGED notGenerator
        /\ CASE verdict = "empty" ->
                    /\ showError(EmptyMsg)
                    /\ genOp' = GenOp("rejected", textInput)
                    /\ UNCHANGED qrCodeContainer
             [] verdict = "toolong" ->
                    /\ showError(TooLongMsg)
                    /\ genOp' = GenOp("rejected", textInput)
                    /\ UNCHANGED qrCodeContainer
             [] verdict = "ok" /\ ~encoderThrows ->
                    /\ qrCodeContainer' = Rendered(text, level)
                    /\ errorText' = NoMsg
                    /\ msgAge' = 0
                    /\ genOp' = GenOp("encoded", text)
                    /\ UNCHANGED errTimers
             [] verdict = "ok" /\ encoderThrows ->
                    /\ showError(EncodeErrMsg)
                    /\ genOp' = GenOp("encoderThrew", text)
                    /\ UNCHANGED qrCodeContainer

\* generateQRCode; genOp keeps the text handed to the encoder, or the
\* rejected content of the field
generateQRCode(encoderThrows) ==
    LET text == Trim(textInput)
        verdict == validate(textInput, maxLength)
        level == getOptimalErrorCorrection(Len(encode(text)))
    IN  /\ UNCHANGED <<textInput, pastes>>
        /\ UNCHANGED notGenerator
        /\ CASE verdict = "empty" ->
                    /\ showError(EmptyMsg)
                    /\ genOp' = GenOp("rejected", textInput)
                    /\ UNCHANGED qrCodeContainer
             [] verdict = "toolong" ->
                    /\ showError(TooLongMsg)
                    /\ genOp' = GenOp("rejected", textInput)
                    /\ UNCHANGED qrCodeContainer
             [] verdict = "ok" /\ ~encoderThrows ->
                    /\ qrCodeContainer' = Rendered(text, level)
                    /\ errorText' = NoMsg
                    /\ msgAge' = 0
                    /\ genOp' = GenOp("encoded", text)
                    /\ UNCHANGED errTimers
             [] verdict = "ok" /\ encoderThrows ->
                    /\ qrCodeContainer' = <<>>
                    /\ showError(EncodeErrMsg)
                    /\ genOp' = GenOp("encoderThrew", text)

\* click on the generate button, or Enter in the text field
generateClick == \E encoderThrows \in BOOLEAN : generateQRCode(encoderThrows)

\* the user edits the text field: "input" listener
textInputEdit(t) ==
    /\ textInput' = t
    /\ validateInputLength(t)
    /\ genOp' = GenOp("input", t)
    /\ UNCHANGED <<qrCodeContainer, errTimers, pastes>>
    /\ UNCHANGED notGenerator

\* click on the paste button: pasteText up to its await
pasteText ==
    /\ pastes < MaxPastes
    /\ pastes' = pastes + 1
    /\ genOp' = GenOp("paste", <<>>)
    /\ UNCHANGED <<textInput, qrCodeContainer, errorText, msgAge, errTimers>>
    /\ UNCHANGED notGenerator

\* navigator.clipboard.readText() resolved with clip
pasteResolved(clip) ==
    /\ pastes > 0
    /\ pastes' = pastes - 1
    /\ IF Len(clip) > maxLength
       THEN /\ errTimers' = errTimers \cup {ErrorDelay}
            /\ textInput' = SubSeq(clip, 1, maxLength)
            /\ genOp' = GenOp("pastedLong", clip)
       ELSE /\ textInput' = clip
            /\ genOp' = GenOp("pasted", clip)
            /\ UNCHANGED errTimers
    /\ validateInputLength(textInput')
    /\ UNCHANGED qrCodeContainer
    /\ UNCHANGED notGenerator

\* navigator.clipboard.readText() rejected
pasteRejected ==
    /\ pastes > 0
    /\ pastes' = pastes - 1
    /\ showError(PasteErrMsg)
    /\ genOp' = GenOp("pasteFailed", <<>>)
    /\ UNCHANGED <<textInput, qrCodeContainer>>
    /\ UNCHANGED notGenerator

\* click on the clear button
clearAll ==
    /\ textInput' = <<>>
    /\ qrCodeContainer' = <<>>
    /\ errorText' = NoMsg
    /\ msgAge' = 0
    /\ genOp' = GenOp("clear", <<>>)
    /\ UNCHANGED <<errTimers, pastes>>
    /\ UNCHANGED notGenerator

\* the callback of a showError timer whose delay has run out
errorTimeout ==
    /\ 0 \in errTimers
    /\ errTimers' = errTimers \ {0}
    /\ errorText' = NoMsg
    /\ msgAge' = 0
    /\ genOp' = GenOp("timeout", <<>>)
    /\ UNCHANGED <<textInput, qrCodeContainer, pastes>>
    /\ UNCHANGED notGenerator

\* one second passes; a timer that is due runs before the clock moves on
\* (with no timer pending nothing depends on the clock)
tick ==
    /\ errTimers # {}
    /\ 0 \notin errTimers
    /\ errTimers' = { t - 1 : t \in errTimers }
    /\ msgAge' = IF errorText = NoMsg THEN 0
                 ELSE IF msgAge < ErrorDelay THEN msgAge + 1 ELSE msgAge
    /\ genOp' = GenOp("tick", <<>>)
    /\ UNCHANGED <<textInput, qrCodeContainer, errorText, pastes>>
    /\ UNCHANGED notGenerator

GeneratorNext ==
    \/ generateClick
    \/ \E t \in TypedTexts : textInputEdit(t)
    \/ pasteText
    \/ \E clip \in ClipTexts : pasteResolved(clip)
    \/ pasteRejected
    \/ clearAll
    \/ errorTimeout
    \/ tick

(***************************************************************************)
(* Functions applied on their own                                          *)
(***************************************************************************)
\* the longest byte array handed to getOptimalErrorCorrection
MaxBytes == 503

\* fnOut is <<>> until the function has returned
Pending == <<>>
FnIdle ==
    /\ fnIn = <<>>
    /\ fnOut = Pending

\* the longest text and the largest maximum handed to validate
MaxValLen == 4
MaxValMax == 3

\* validate applied to any text and any configured maximum
ValInputs == [value : TextsUpTo(MaxValLen), max : 1..MaxValMax]

applyValidate ==
    /\ fnOut = Pending
    /\ fnOut' = <<validate(fnIn.value, fnIn.max)>>
    /\ UNCHANGED <<fnIn, scannerVars, generatorVars>>

\* getOptimalErrorCorrection applied to byte arrays of two lengths n <= m
ECInputs == { in \in [n : 0..MaxBytes, m : 0..MaxBytes] : in.n <= in.m }

applyErrorCorrection ==
    /\ fnOut = Pending
    /\ fnOut' = << getOptimalErrorCorrection(fnIn.n),
                   getOptimalErrorCorrection(fnIn.m) >>
    /\ UNCHANGED <<fnIn, scannerVars, generatorVars>>

\* the largest maximum validateInputLength is applied with
MaxWarnMax == 10

\* validateInputLength applied to a field of any length its maximum allows
WarnInputs == { in \in [length : 0..MaxWarnMax, max : 1..MaxWarnMax] :
                  in.length <= in.max }

applyValidateInputLength ==
    /\ fnOut = Pending
    /\ fnOut' = <<warningFor(fnIn.length, fnIn.max)>>
    /\ UNCHANGED <<fnIn, scannerVars, generatorVars>>

\* createQRCodeSVG.  A length is a fraction num/den of the user unit: the
\* module size 200/moduleCount is no integer in general.
size == 200
White == "#ffffff"
Black == "#000000"
Frac(num, den) == [num |-> num, den |-> den]
Times(k, q) == Frac(k * q.num, q.den)

\* the largest module count of a matrix handed to createQRCodeSVG
MaxModules == 3

\* the encoder's result: getModuleCount() and the cells isDark() is true of
Matrices ==
    UNION { [moduleCount : {n}, dark : SUBSET ((0..(n-1)) \X (0..(n-1)))] :
            n \in 1..MaxModules }
isDark(qr, row, col) == <<row, col>> \in qr.dark

backgroundRect == [fill |-> White, width |-> "100%", height |-> "100%"]
\* a module shape with x taken from the row and y from the column
moduleRectTransposed(row, col, moduleSize) ==
    [fill |-> Black, x |-> Times(row, moduleSize), y |-> Times(col, moduleSize),
     width |-> moduleSize, height |-> moduleSize]

moduleRect(row, col, moduleSize) ==
    [fill |-> Black, x |-> Times(col, moduleSize), y |-> Times(row, moduleSize),
     width |-> moduleSize, height |-> moduleSize]

\* the two nested loops, from cell number k on (row by row)
RECURSIVE moduleRects(_, _, _)
moduleRects(qr, moduleSize, k) ==
    LET moduleCount == qr.moduleCount
        row == k \div moduleCount
        col == k % moduleCount
    IN  IF k >= moduleCount * moduleCount THEN <<>>
        ELSE (IF isDark(qr, row, col)
              THEN <<moduleRect(row, col, moduleSize)>> ELSE <<>>)
             \o moduleRects(qr, moduleSize, k + 1)

createQRCodeSVG(qr) ==
    LET moduleCount == qr.moduleCount
        moduleSize == Frac(size, moduleCount)
    IN  [width |-> size, height |-> size, viewBox |-> <<0, 0, size, size>>,
         children |-> <<backgroundRect>> \o moduleRects(qr, moduleSize, 0)]

applyCreateQRCodeSVG ==
    /\ fnOut = Pending
    /\ fnOut' = <<createQRCodeSVG(fnIn)>>
    /\ UNCHANGED <<fnIn, scannerVars, generatorVars>>

(***************************************************************************)
(* Specifications                                                          *)
(***************************************************************************)
\* the scanner page
Init == ScannerInit /\ GeneratorInit /\ FnIdle
Next == ScannerNext
Spec == Init /\ [][Next]_vars

\* the generator page
GenSpec == Init /\ [][GeneratorNext]_vars

\* the two pages are separate documents that share nothing: a behaviour of
\* PagesSpec opens one of them and stays on it
PagesNext ==
    \/ genOp.op = "init" /\ ScannerNext
    \/ lastOp.op = "init" /\ GeneratorNext
PagesSpec == Init /\ [][PagesNext]_vars

\* the validation step of generateQRCode on its own
ValInit ==
    /\ ScannerInit /\ GeneratorInit
    /\ fnIn \in ValInputs
    /\ fnOut = Pending
ValSpec == ValInit /\ [][applyValidate]_vars

\* getOptimalErrorCorrection on its own
ECInit ==
    /\ ScannerInit /\ GeneratorInit
    /\ fnIn \in ECInputs
    /\ fnOut = Pending
ECSpec == ECInit /\ [][applyErrorCorrection]_vars

\* createQRCodeSVG on its own
SvgInit ==
    /\ ScannerInit /\ GeneratorInit
    /\ fnIn \in Matrices
    /\ fnOut = Pending
SvgSpec == SvgInit /\ [][applyCreateQRCodeSVG]_vars

\* validateInputLength on its own
WarnInit ==
    /\ ScannerInit /\ GeneratorInit
    /\ fnIn \in WarnInputs
    /\ fnOut = Pending
WarnSpec == WarnInit /\ [][applyValidateInputLength]_vars

TypeOK ==
    /\ previewHidden \in BOOLEAN
    /\ copyDisabled \in BOOLEAN
    /\ clearDisabled \in BOOLEAN
    /\ BagCardinality(jobs) <= MaxJobs
    /\ Len(copyTimers) <= MaxCopyTimers

(***************************************************************************)
(* Properties of the scanner                                               *)
(***************************************************************************)
HasText(t) == Len(Trim(t)) > 0

\* the text a completed scan of f leaves in the result field
ScanText(f) ==
    CASE f.decode = "code"  -> f.data
      [] f.decode = "none"  -> NoQRText
      [] f.decode = "throw" -> ErrPrefix \o f.data

\* C1: in every reachable state the copy button and the clear button are
\* enabled if and only if the trimmed text of the result field is non-empty.
C1_ButtonsIffText ==
    /\ copyDisabled = ~HasText(resultText)
    /\ clearDisabled = ~HasText(resultText)

\* C6: once every pending feedback timer has fired, the copy button shows
\* the label it had before the first copy action.
C6_CopyFeedbackTransient ==
    copyTimers = <<>> => copyBtnText = CopyLabel

\* C7: when the last pending callback has run and the image accepted last
\* could be read and loaded, the result field and the preview are those of
\* the image accepted last.
C7_LatestWins ==
    ( /\ lastOp.op = "scan"
      /\ jobs = EmptyBag
      /\ latest.readable /\ latest.loadable )
    => /\ resultText = ScanText(latest)
       /\ previewSrc.file = latest.name

\* C8: right after a scan in which the decoder returned no result, the
\* result field reads exactly "No QR code found" and the preview area is
\* hidden.
C8_NoResult ==
    lastOp = Op("scan", "none")
    => /\ resultText = NoQRText
       /\ previewHidden

\* a no-result scan that followed text for which the buttons were enabled
C8_Witness ==
    /\ lastOp = Op("scan", "none")
    /\ resultText = NoQRText
    /\ ~copyDisabled

\* C9: right after a scan in which the decoder returned a result, the result
\* field holds the decoded text and the preview area is visible, showing a
\* crop whose width and height are both greater than zero.
C9_FoundShowsCrop ==
    lastOp = Op("scan", "code")
    => /\ \E f \in Files : /\ f.decode = "code"
                            /\ previewSrc.file = f.name
                            /\ resultText = f.data
       /\ ~previewHidden
       /\ previewSrc.kind = "crop"
       /\ previewSrc.w > 0
       /\ previewSrc.h > 0

\* C10 as stated: right after a scan in which the decoder threw, the result
\* field equals the message of the error and the preview area is hidden.
C10_ErrorVerbatim ==
    lastOp = Op("scan", "throw")
    => /\ \E f \in Files : /\ f.decode = "throw"
                            /\ previewSrc.file = f.name
                            /\ resultText = f.data
       /\ previewHidden

\* C10 amended: right after a scan in which the decoder threw, the result
\* field equals "Error scanning QR code: " followed by the message of the
\* error, and the preview area is hidden.
C10_ErrorPrefixed ==
    lastOp = Op("scan", "throw")
    => /\ \E f \in Files : /\ f.decode = "throw"
                            /\ previewSrc.file = f.name
                            /\ resultText = ErrPrefix \o f.data
       /\ previewHidden

\* the decoder threw while scanning a picture that replaced a shown preview
C10_Witness ==
    /\ lastOp = Op("scan", "throw")
    /\ resultText = ErrPrefix \o <<"boom">>
    /\ ~copyDisabled

(***************************************************************************)
(* Properties of the generator                                             *)
(***************************************************************************)
\* C2 as stated: validation accepts a text whose length is > 0 and <= the
\* maximum, rejects a text of length 0 as empty and a text longer than the
\* maximum as too long, whitespace included.
C2_ValidateByLength ==
    fnOut # Pending
    => fnOut[1] = IF Len(fnIn.value) = 0 THEN "empty"
                  ELSE IF Len(fnIn.value) > fnIn.max THEN "toolong"
                  ELSE "ok"

\* positions of the characters that are not whitespace
Inked(value) == { i \in 1..Len(value) : ~IsSpace(value[i]) }
\* length of the text between its first and last non-whitespace character
CoreLen(value) ==
    IF Inked(value) = {} THEN 0
    ELSE (CHOOSE i \in Inked(value) : \A j \in Inked(value) : j <= i)
         - (CHOOSE i \in Inked(value) : \A j \in Inked(value) : i <= j) + 1

\* C2 amended: validation looks at the text without its leading and
\* trailing whitespace: it accepts when that length is > 0 and <= the
\* maximum, rejects as empty when it is 0 (a text of whitespace only
\* included) and as too long when it exceeds the maximum.
C2_ValidateTrimmed ==
    fnOut # Pending
    => fnOut[1] = IF CoreLen(fnIn.value) = 0 THEN "empty"
                  ELSE IF CoreLen(fnIn.value) > fnIn.max THEN "toolong"
                  ELSE "ok"

\* a text longer than the maximum that is accepted once trimmed
C2_Witness ==
    /\ fnOut = <<"ok">>
    /\ Len(fnIn.value) > fnIn.max

\* robustness of a tier: L 7%, M 15%, Q 25%, H 30%
Robustness(tier) ==
    CASE tier = "L" -> 7 [] tier = "M" -> 15 [] tier = "Q" -> 25
      [] tier = "H" -> 30

\* C3: the tier is L above 500 bytes, M above 200 up to 500, Q above 100 up
\* to 200 and H up to 100, and a longer byte array never gets a more robust
\* tier than a shorter one.
C3_TierSteps ==
    fnOut # Pending
    => /\ \A k \in 1..2 :
            LET n == IF k = 1 THEN fnIn.n ELSE fnIn.m
            IN  /\ n > 500 => fnOut[k] = "L"
                /\ (200 < n /\ n <= 500) => fnOut[k] = "M"
                /\ (100 < n /\ n <= 200) => fnOut[k] = "Q"
                /\ n <= 100 => fnOut[k] = "H"
       /\ Robustness(fnOut[1]) >= Robustness(fnOut[2])

\* the step from M to L is taken between 500 and 501 bytes
C3_Witness ==
    /\ fnIn = [n |-> 500, m |-> 501]
    /\ fnOut = <<"M", "L">>

\* C4: a timer callback removes a displayed message only when that message
\* has been displayed for the full delay of 5 seconds.
C4_FullDelay ==
    [][ (genOp'.op = "timeout" /\ errorText # NoMsg)
        => msgAge >= ErrorDelay ]_vars

\* C5: when pasteText has completed with a clipboard text longer than the
\* maximum, the input field holds its first maxLength characters and the
\* truncation warning is the message displayed.
C5_PasteTruncates ==
    genOp.op = "pastedLong"
    => /\ textInput = SubSeq(genOp.arg, 1, maxLength)
       /\ errorText = TruncMsg

\* C11: right after a generate in which the encoder threw, the error message
\* of the generator is displayed and the symbol container is empty.
C11_EncoderThrew ==
    genOp.op = "encoderThrew"
    => /\ errorText = EncodeErrMsg
       /\ qrCodeContainer = <<>>

\* the encoder threw for a validated text
C11_Witness ==
    /\ genOp.op = "encoderThrew"
    /\ genOp.arg # <<>>
    /\ errorText = EncodeErrMsg
    /\ qrCodeContainer = <<>>

\* C12: clearAll leaves the input text, the symbol container and the error
\* message empty, and a clearAll that directly follows a clearAll changes
\* nothing on the generator page; clearResults leaves the result text empty,
\* the preview hidden, the file picker empty and both buttons disabled,
\* which are the values a second clearResults would write.
C12_ClearResets ==
    [][ /\ genOp'.op = "clear"
           => /\ textInput' = <<>>
              /\ qrCodeContainer' = <<>>
              /\ errorText' = NoMsg
        /\ (genOp.op = "clear" /\ genOp'.op = "clear")
           => UNCHANGED <<textInput, qrCodeContainer, errorText, msgAge,
                          errTimers, pastes>>
        /\ lastOp'.op = "clear"
           => /\ resultText' = <<>>
              /\ previewHidden'
              /\ previewSrc' = NoSrc
              /\ fileInputValue' = ""
              /\ copyDisabled' /\ clearDisabled' ]_vars

\* the scanner was cleared after a picked image had delivered its result
C12_Witness ==
    /\ lastOp.op = "clear"
    /\ latest # NoFile
    /\ jobs = EmptyBag
    /\ resultText = <<>>
    /\ fileInputValue = ""

\* the dark shapes among the children of an svg element
DarkShapes(svg) ==
    { i \in DOMAIN svg.children : svg.children[i].fill = Black }

\* C13: for a matrix of side N the svg element returned by createQRCodeSVG
\* holds, for every cell (row, col) of the N-by-N grid laid over the symbol,
\* exactly one dark shape filling that cell if isDark(row, col) and none
\* otherwise, and no dark shape anywhere else.
C13_OneShapePerDarkModule ==
    fnOut # Pending
    => LET svg == fnOut[1]
           N == fnIn.moduleCount
           cell == Frac(svg.width, N)
           At(row, col) ==
               { i \in DarkShapes(svg) :
                     /\ svg.children[i].x = Times(col, cell)
                     /\ svg.children[i].y = Times(row, cell)
                     /\ svg.children[i].width = cell
                     /\ svg.children[i].height = cell }
       IN  /\ \A row \in 0..(N-1), col \in 0..(N-1) :
                Cardinality(At(row, col))
                    = IF isDark(fnIn, row, col) THEN 1 ELSE 0
           /\ Cardinality(DarkShapes(svg)) = Cardinality(fnIn.dark)

\* a rendered matrix that is not symmetric: it has dark and light cells and
\* a dark cell whose mirror cell is light
C13_Witness ==
    /\ fnOut # Pending
    /\ fnIn.moduleCount = MaxModules
    /\ \E c \in fnIn.dark : <<c[2], c[1]>> \notin fnIn.dark
    /\ Cardinality(DarkShapes(fnOut[1])) = Cardinality(fnIn.dark)

\* C14: right after a copy whose write to the clipboard failed the copy
\* button does not show the success label.
C14_CopyFailureSurfaced ==
    lastOp = Op("copy", "failed") => copyBtnText # Copied

\* C15: no file read and no image load is ever in flight for a file whose
\* MIME type is not an image type (a type of the form image/...).
C15_NonImageRejected ==
    \A job \in BagToSet(jobs) : Head(job.file.type) = "image"

\* C16: the text of every request to the encoder has at least one character
\* and at most maxLength characters.
C16_RequestsWithinBounds ==
    genOp.op \in {"encoded", "encoderThrew"}
    => /\ Len(genOp.arg) >= 1
       /\ Len(genOp.arg) <= maxLength

\* a request made with the trimmed text of a field that held more
C16_Witness ==
    /\ genOp.op = "encoded"
    /\ Len(genOp.arg) >= 1
    /\ Len(genOp.arg) < Len(textInput)

\* the svg elements among the children of the symbol container
Symbols == { i \in DOMAIN qrCodeContainer : qrCodeContainer[i].tag = "svg" }

\* C17: the symbol container holds at most one symbol, and right after a
\* generate that succeeded it holds exactly one: the symbol of the bytes of
\* the text of that call.
C17_OneSymbol ==
    /\ Cardinality(Symbols) <= 1
    /\ genOp.op = "encoded"
       => /\ Cardinality(Symbols) = 1
          /\ \A i \in Symbols : qrCodeContainer[i].bytes = encode(genOp.arg)

\* a symbol rendered while the timer of an earlier message was pending
C17_Witness ==
    /\ genOp.op = "encoded"
    /\ Cardinality(Symbols) = 1
    /\ genOp.arg = <<"\"e">>
    /\ msgAge = 0 /\ errTimers # {}

\* C18: an accepted file of an image type leaves the set of files in flight
\* only through a decode attempt that writes the result field.
C18_OneCompletion ==
    [][ \A f \in Files :
          ( /\ Head(f.type) = "image"
            /\ CopiesIn(Job(f, "reading"), jobs')
                 + CopiesIn(Job(f, "loading"), jobs')
               < CopiesIn(Job(f, "reading"), jobs)
                 + CopiesIn(Job(f, "loading"), jobs) )
          => lastOp'.op = "scan" ]_vars

\* C19: a generate that validation rejects makes no request to the encoder,
\* displays the message of the rejection and leaves the symbol container as
\* it was.
C19_RejectKeepsSymbol ==
    [][ genOp'.op = "rejected"
        => /\ qrCodeContainer' = qrCodeContainer
           /\ errorText' = IF Len(Trim(textInput)) = 0 THEN EmptyMsg
                             ELSE TooLongMsg ]_vars

\* a rejected generate with the symbol of an earlier text still displayed
C19_Witness ==
    /\ genOp.op = "rejected"
    /\ qrCodeContainer # <<>>
    /\ errorText = EmptyMsg

\* C20: validateInputLength displays the warning, with the number of
\* characters left, exactly when the characters left (maximum minus length)
\* are strictly fewer than 20% of the maximum, and an empty message
\* otherwise; the warning is none of the messages of a rejection.
C20_WarnNearLimit ==
    fnOut # Pending
    => LET remaining == fnIn.max - fnIn.length
       IN  /\ fnOut[1] = IF 5 * remaining < fnIn.max
                         THEN WarnMsg(remaining) ELSE NoMsg
           /\ fnOut[1].kind
                \notin {EmptyMsg.kind, TooLongMsg.kind, TruncMsg.kind}

\* a warning for a field that is not yet full
C20_Witness ==
    /\ fnOut # Pending
    /\ fnIn.length < fnIn.max
    /\ fnOut[1] = WarnMsg(fnIn.max - fnIn.length)

\* C21: the preview area starts hidden, it becomes visible only in a scan
\* in which the decoder returned a result, and every scan without a result,
\* every scan in which the decoder threw and every clear leaves it hidden:
\* it is visible only if the scan completed last returned a result and no
\* clear has happened since.
C21_PreviewOnlyAfterResult ==
    /\ previewHidden = TRUE
    /\ [][ /\ (previewHidden /\ ~previewHidden')
              => lastOp' = Op("scan", "code")
           /\ ( \/ lastOp' = Op("scan", "none")
                \/ lastOp' = Op("scan", "throw")
                \/ lastOp'.op = "clear" )
              => previewHidden' ]_vars

\* the preview of an earlier result was hidden by a scan in which the
\* decoder threw
C21_Witness ==
    /\ lastOp = Op("scan", "throw")
    /\ previewHidden
    /\ ~copyDisabled
    /\ resultText = ErrPrefix \o <<"boom">>

\* C22: a scan that completes directly after a clear, and so belongs to an
\* image supplied before the clear, leaves the result field empty, the
\* preview hidden and the source of the preview image empty.
C22_ClearStaysClear ==
    [][ (lastOp.op = "clear" /\ lastOp'.op = "scan")
        => /\ resultText' = <<>>
           /\ previewHidden'
           /\ previewSrc' = NoSrc ]_vars

=============================================================================
